---- MODULE Spec2Model ----
(***************************************************************************)
(* Model of app.py, the FUB Building Energy Management System dashboard:   *)
(* the weekly AC schedule (is_ac_on), the synthetic telemetry generator    *)
(* (generate_room_data, load_data behind st.cache_data), the range filter  *)
(* and the aggregations (filter_by_range, aggregate_energy, daily_energy,  *)
(* the grouped rollups of the views) and the script run (main) driven by   *)
(* the sidebar widgets.                                                    *)
(*                                                                         *)
(* Representation of values                                                *)
(*   datetime  minutes since Monday 2025-10-27 00:00, so that              *)
(*             2025-11-01 (a Saturday) is day 5                            *)
(*   date      days since that Monday;  time of day: minutes since 00:00   *)
(*   voltage   volts;  current: tenths of an ampere                        *)
(*   power_kw  1/10000 kW  (volts * tenths of an ampere)                   *)
(*   energy    1/600000 kWh (power * minutes), cost: 1/600000 BDT,         *)
(*             co2: 1/6000000 kg                                           *)
(* Arithmetic is exact (fixed point); the rounding of IEEE doubles is not  *)
(* modelled.                                                               *)
(***************************************************************************)
EXTENDS Integers, Sequences, FiniteSets, TLC

VARIABLES
    cache,          \* st.cache_data entry of load_data: <<>> or <<df>>
    session_state,  \* st.session_state: view_mode, floor_select, room_select_label
    widgets,        \* values of the un-keyed sidebar widgets
    run,            \* what the last script run (main) did and put on the page
    rng,            \* the global numpy generator: its seed and the values taken
    hist,           \* history of the process: builds, first load_data result
    data,           \* state of the data engine exercised on its own
    sched,          \* state of the schedule oracle exercised on its own
    config          \* the module constants START_DATE, END_DATE, TIME_FREQ_MIN

vars == <<cache, session_state, widgets, run, rng, hist, data, sched, config>>

None == "None"

(***************************************************************************)
(* Bounds of the model.                                                    *)
(***************************************************************************)
StepScale == 48     \* the sampling step is StepScale * 15 minutes (program: 1)
NumSteps == 6       \* grid points of the horizon (program: 1440)
NumSeeds == 8       \* generator seeds the data engine is exercised with
AppSeeds == 2       \* generator seeds a process of the app may start with
SchedDays == 7      \* days of timestamps given to the schedule oracle
MaxShift == 2       \* rotations of the row order given to the per-room rollup

(***************************************************************************)
(* datetime, date and time values.                                         *)
(***************************************************************************)
MinutesPerDay == 24 * 60

time(h, m) == h * 60 + m

combine(d, t) == d * MinutesPerDay + t

date_of(ts) == ts \div MinutesPerDay

time_of(ts) == ts % MinutesPerDay

weekday(ts) == date_of(ts) % 7

(***************************************************************************)
(* Constants and configuration.                                            *)
(***************************************************************************)
START_DATE == combine(5, time(0, 0))

TIME_FREQ_MIN == 15 * StepScale

END_DATE == START_DATE + (NumSteps - 1) * TIME_FREQ_MIN

\* The horizon and step the module is configured with.
CONFIG ==
    [START_DATE |-> START_DATE, END_DATE |-> END_DATE, TIME_FREQ_MIN |-> TIME_FREQ_MIN]

TARIFF_PER_KWH == 8

CO2_PER_KWH_KG == 6

FLOORS ==
    << [floor |-> "Floor 1",
        rooms |-> << <<"F1-101", "Computer Lab 1">>,
                     <<"F1-102", "Computer Lab 2">>,
                     <<"F1-103", "Faculty Room 1">> >>],
       [floor |-> "Floor 2",
        rooms |-> << <<"F2-201", "Classroom 201">>,
                     <<"F2-202", "Classroom 202">>,
                     <<"F2-203", "Seminar Room">> >>],
       [floor |-> "Floor 3",
        rooms |-> << <<"F3-301", "Classroom 301">>,
                     <<"F3-302", "Classroom 302">>,
                     <<"F3-303", "Conference Room">> >>] >>

WEEKDAY_SCHEDULE ==
    << <<time(9, 0), time(12, 0)>>,
       <<time(13, 0), time(17, 0)>> >>

(***************************************************************************)
(* Schedule oracle.                                                        *)
(***************************************************************************)
is_ac_on_strict(ts) ==
    IF weekday(ts) >= 5
    THEN FALSE
    ELSE \E w \in 1..Len(WEEKDAY_SCHEDULE) :
            /\ WEEKDAY_SCHEDULE[w][1] < time_of(ts)
            /\ time_of(ts) < WEEKDAY_SCHEDULE[w][2]

is_ac_on(ts) ==
    IF weekday(ts) >= 5
    THEN FALSE
    ELSE \E w \in 1..Len(WEEKDAY_SCHEDULE) :
            /\ WEEKDAY_SCHEDULE[w][1] <= time_of(ts)
            /\ time_of(ts) <= WEEKDAY_SCHEDULE[w][2]

(***************************************************************************)
(* The global numpy generator.  Its stream is a function of the state it   *)
(* was seeded with at process start; np_random(seed, k) is the k-th raw    *)
(* value of the stream.  uniform and normal turn a raw value into a draw:  *)
(* a normal draw is loc + scale * z for a standard deviate z, taken from a *)
(* table that reaches four deviations below the mean.                      *)
(***************************************************************************)
Seeds == 0..(NumSeeds - 1)

np_random(seed, k) ==
    ((seed + 3) * (2 * k + 1) * (k + 5) + 7 * seed * seed + k) % 1009

std_normal(u) ==
    LET table == <<0, 1, -1, 0, 2, -2, 1, -4, -1, 0, 3>>
    IN  table[(u % Len(table)) + 1]

uniform(low, high, u) == low + (u % (high - low + 1))

normal(loc, scale, u) == loc + scale * std_normal(u)

(***************************************************************************)
(* Data generation.                                                        *)
(***************************************************************************)
date_range_open(start, end, freq) ==
    IF end < start
    THEN << >>
    ELSE [k \in 1..((end - start) \div freq) |-> start + (k - 1) * freq]

\* pd.date_range(start, end, freq=...): start, start+freq, ... while <= end
\* A negative freq counts down from start; a zero freq raises (see
\* date_range_raises) and gives no index.
date_range(start, end, freq) ==
    IF freq > 0
    THEN IF end < start
         THEN << >>
         ELSE [k \in 1..((end - start) \div freq + 1) |-> start + (k - 1) * freq]
    ELSE IF freq < 0
    THEN IF start < end
         THEN << >>
         ELSE [k \in 1..((start - end) \div (0 - freq) + 1) |-> start + (k - 1) * freq]
    ELSE << >>

\* pd.date_range divides by the step: a zero freq raises ZeroDivisionError.
date_range_raises(freq) == freq = 0

np_clip_none(x, low) == x

\* np.clip(x, low, None)
np_clip(x, low) == IF x < low THEN low ELSE x

\* Raw values one call of generate_room_data takes from the generator.
DrawsPerRoom(n) == 2 + 4 * n

\* generate_room_data reading the module constants from cfg.
\* pos: raw values already taken from the generator before the call.
generate_room_data_for(cfg, room_id, floor, room_name, seed, pos) ==
    LET idx == date_range(cfg.START_DATE, cfg.END_DATE, cfg.TIME_FREQ_MIN)
        n == Len(idx)
        is_on == [i \in 1..n |-> is_ac_on(idx[i])]
        base_current == uniform(70, 100, np_random(seed, pos + 1))
        base_voltage == uniform(225, 235, np_random(seed, pos + 2))
        v_on(i) == normal(base_voltage, 2, np_random(seed, pos + 2 + i))
        v_off(i) == normal(base_voltage - 2, 1, np_random(seed, pos + 2 + n + i))
        c_on(i) == normal(base_current, 8, np_random(seed, pos + 2 + 2 * n + i))
        c_off(i) == normal(3, 1, np_random(seed, pos + 2 + 3 * n + i))
        voltage == [i \in 1..n |-> IF is_on[i] THEN v_on(i) ELSE v_off(i)]
        current == [i \in 1..n |-> IF is_on[i] THEN c_on(i) ELSE c_off(i)]
        power_kw == [i \in 1..n |-> np_clip(voltage[i] * current[i], 0)]
        step_hours == cfg.TIME_FREQ_MIN
        energy_kwh_step == [i \in 1..n |-> power_kw[i] * step_hours]
    IN  [i \in 1..n |->
            [timestamp |-> idx[i],
             floor |-> floor,
             room_id |-> room_id,
             room_name |-> room_name,
             voltage |-> voltage[i],
             current |-> current[i],
             power_kw |-> power_kw[i],
             energy_kwh_step |-> energy_kwh_step[i],
             is_on |-> is_on[i]]]

generate_room_data(room_id, floor, room_name, seed, pos) ==
    generate_room_data_for(CONFIG, room_id, floor, room_name, seed, pos)

\* The (floor, room_id, room_name) triples in the order load_data visits them.
RECURSIVE RoomsFrom(_)
RoomsFrom(f) ==
    IF f > Len(FLOORS)
    THEN << >>
    ELSE [r \in 1..Len(FLOORS[f].rooms) |->
            [floor |-> FLOORS[f].floor,
             room_id |-> FLOORS[f].rooms[r][1],
             room_name |-> FLOORS[f].rooms[r][2]]] \o RoomsFrom(f + 1)

ROOMS == RoomsFrom(1)

GridLen == Len(date_range(START_DATE, END_DATE, TIME_FREQ_MIN))

RECURSIVE concat_frames(_, _, _)
concat_frames(r, seed, pos) ==
    IF r > Len(ROOMS)
    THEN << >>
    ELSE generate_room_data(ROOMS[r].room_id, ROOMS[r].floor, ROOMS[r].room_name,
                            seed, pos)
         \o concat_frames(r + 1, seed, pos + DrawsPerRoom(GridLen))

\* The frames of load_data, reading the module constants from cfg.
RECURSIVE concat_frames_for(_, _, _, _)
concat_frames_for(cfg, r, seed, pos) ==
    IF r > Len(ROOMS)
    THEN << >>
    ELSE generate_room_data_for(cfg, ROOMS[r].room_id, ROOMS[r].floor,
                                ROOMS[r].room_name, seed, pos)
         \o concat_frames_for(cfg, r + 1, seed, pos + DrawsPerRoom(
                Len(date_range(cfg.START_DATE, cfg.END_DATE, cfg.TIME_FREQ_MIN))))

\* The body of load_data: one frame per room, concatenated.
build_dataset(seed, pos) == concat_frames(1, seed, pos)

(***************************************************************************)
(* DataFrame helpers.  A DataFrame is a sequence of rows (records).        *)
(***************************************************************************)
\* df[mask]: the rows for which keep(row) holds, in their order.
rows_where(df, keep(_)) == SelectSeq(df, keep)

\* Sum of df[lo..hi][col], by halves.
RECURSIVE sum_range(_, _, _, _)
sum_range(df, col, lo, hi) ==
    IF lo > hi
    THEN 0
    ELSE IF lo = hi
    THEN df[lo][col]
    ELSE sum_range(df, col, lo, (lo + hi) \div 2)
         + sum_range(df, col, (lo + hi) \div 2 + 1, hi)

\* df[col].sum(); 0 for an empty frame
col_sum(df, col) == sum_range(df, col, 1, Len(df))

\* The rows of a frame held as a tuple.
as_rows(f) == f \o << >>

\* Place of row i in a stable ascending sort: after every row with a smaller
\* key and after the earlier rows with the same key.
sorted_place(ks, i) ==
    1 + Cardinality({j \in DOMAIN ks : ks[j] < ks[i] \/ (ks[j] = ks[i] /\ j < i)})

\* df.sort_values(...) on an integer key, ties kept in their order
sort_values(df, key(_)) ==
    LET ks == as_rows([i \in DOMAIN df |-> key(df[i])])
        place == as_rows([i \in DOMAIN df |-> sorted_place(ks, i)])
    IN  [p \in DOMAIN df |-> df[CHOOSE i \in DOMAIN df : place[i] = p]]

\* The ascending sequence of the integers of a finite set.
RECURSIVE ascending(_)
ascending(ks) ==
    IF ks = {}
    THEN << >>
    ELSE LET low == CHOOSE k \in ks : \A x \in ks : k <= x
         IN  <<low>> \o ascending(ks \ {low})

\* The distinct group keys of a groupby, ascending (groupby sorts its keys).
group_keys(df, key(_)) == ascending({key(df[i]) : i \in DOMAIN df})

\* Lexicographic rank of the catalog's strings (Python compares str values).
str_rank(s) ==
    LET order == <<"Classroom 201", "Classroom 202", "Classroom 301",
                   "Classroom 302", "Computer Lab 1", "Computer Lab 2",
                   "Conference Room", "F1-101", "F1-102", "F1-103", "F2-201",
                   "F2-202", "F2-203", "F3-301", "F3-302", "F3-303",
                   "Faculty Room 1", "Floor 1", "Floor 2", "Floor 3",
                   "Seminar Room">>
    IN  CHOOSE i \in 1..Len(order) : order[i] = s

(***************************************************************************)
(* Helpers for aggregation.                                                *)
(***************************************************************************)
filter_by_range_half_open(df, start_dt, end_dt) ==
    LET keep(r) == r.timestamp >= start_dt /\ r.timestamp < end_dt
    IN  rows_where(df, keep)

filter_by_range(df, start_dt, end_dt) ==
    LET keep(r) == r.timestamp >= start_dt /\ r.timestamp <= end_dt
    IN  rows_where(df, keep)

aggregate_energy_swapped(df) ==
    LET total_energy == col_sum(df, "energy_kwh_step")
    IN  [total_energy |-> total_energy,
         total_cost |-> total_energy * CO2_PER_KWH_KG,
         total_co2_kg |-> total_energy * TARIFF_PER_KWH]

aggregate_energy(df) ==
    LET total_energy == col_sum(df, "energy_kwh_step")
        total_cost == total_energy * TARIFF_PER_KWH
        total_co2_kg == total_energy * CO2_PER_KWH_KG
    IN  [total_energy |-> total_energy,
         total_cost |-> total_cost,
         total_co2_kg |-> total_co2_kg]

\* Groups by 24 hour windows counted from the first row instead of by date.
daily_energy_rolling(df) ==
    LET win(r) == (r.timestamp - df[1].timestamp) \div MinutesPerDay
        keys == group_keys(df, win)
    IN  [k \in 1..Len(keys) |->
            LET in_group(r) == win(r) = keys[k]
            IN  [timestamp |-> date_of(df[1].timestamp) + keys[k],
                 energy_kwh |-> col_sum(rows_where(df, in_group), "energy_kwh_step")]]

daily_energy(df) ==
    LET dt_date(r) == date_of(r.timestamp)
        keys == group_keys(df, dt_date)
    IN  [k \in 1..Len(keys) |->
            LET in_group(r) == dt_date(r) = keys[k]
            IN  [timestamp |-> keys[k],
                 energy_kwh |-> col_sum(rows_where(df, in_group), "energy_kwh_step")]]

(***************************************************************************)
(* The grouped rollups of the views.                                       *)
(***************************************************************************)
\* Rank of a (floor, room_id, room_name) group key in lexicographic order.
room_key(r) ==
    (str_rank(r.floor) * 100 + str_rank(r.room_id)) * 100 + str_rank(r.room_name)

\* A sort key that orders nothing: the sort leaves the rows as they came.
ts_key_none(r) == 0

ts_key(r) == r.timestamp

\* building_overview: energy and last power per room
rooms_agg_last(df_range) ==
    LET sorted == sort_values(df_range, ts_key)
        keys == group_keys(sorted, room_key)
    IN  [k \in 1..Len(keys) |->
            LET in_group(r) == room_key(r) = keys[k]
                g == rows_where(sorted, in_group)
            IN  [floor |-> g[1].floor,
                 room_id |-> g[1].room_id,
                 room_name |-> g[1].room_name,
                 energy_kwh |-> g[Len(g)].energy_kwh_step,
                 last_power_kw |-> g[Len(g)].power_kw]]

rooms_agg(df_range) ==
    LET sorted == sort_values(df_range, ts_key)
        keys == group_keys(sorted, room_key)
        grouped ==
            [k \in 1..Len(keys) |->
                LET in_group(r) == room_key(r) = keys[k]
                    g == rows_where(sorted, in_group)
                IN  [floor |-> g[1].floor,
                     room_id |-> g[1].room_id,
                     room_name |-> g[1].room_name,
                     energy_kwh |-> col_sum(g, "energy_kwh_step"),
                     last_power_kw |-> g[Len(g)].power_kw]]
        floor_room(r) == str_rank(r.floor) * 100 + str_rank(r.room_id)
    IN  sort_values(grouped, floor_room)

\* building_overview: energy per floor, largest first
energy_by_floor(df_range) ==
    LET floor_key(r) == str_rank(r.floor)
        keys == group_keys(df_range, floor_key)
        grouped ==
            [k \in 1..Len(keys) |->
                LET in_group(r) == floor_key(r) = keys[k]
                    g == rows_where(df_range, in_group)
                IN  [floor |-> g[1].floor,
                     energy_kwh_step |-> col_sum(g, "energy_kwh_step")]]
        descending(r) == 0 - r.energy_kwh_step
    IN  sort_values(grouped, descending)

\* floor_view: energy per room of the selected floor
energy_by_room(df_floor) ==
    LET id_name(r) == str_rank(r.room_id) * 100 + str_rank(r.room_name)
        keys == group_keys(df_floor, id_name)
    IN  [k \in 1..Len(keys) |->
            LET in_group(r) == id_name(r) = keys[k]
                g == rows_where(df_floor, in_group)
            IN  [room_id |-> g[1].room_id,
                 room_name |-> g[1].room_name,
                 energy_kwh_step |-> col_sum(g, "energy_kwh_step"),
                 label |-> <<g[1].room_id, " - ", g[1].room_name>>]]

\* building_overview: total power per timestamp
power_series(df) ==
    LET keys == group_keys(df, ts_key)
    IN  [k \in 1..Len(keys) |->
            LET in_group(r) == r.timestamp = keys[k]
            IN  [timestamp |-> keys[k],
                 power_kw |-> col_sum(rows_where(df, in_group), "power_kw")]]

select_floor(df_range, floor) ==
    LET keep(r) == r.floor = floor
    IN  rows_where(df_range, keep)

select_room(df_range, room_id) ==
    LET keep(r) == r.room_id = room_id
    IN  rows_where(df_range, keep)

(***************************************************************************)
(* Initial values of the three parts of the state.                         *)
(***************************************************************************)
\* on: << >> before the oracle is asked, <<answer>> after
SchedIdle == [ts |-> START_DATE, on |-> << >>]

DataIdle ==
    [seed |-> 0, df |-> << >>, start_dt |-> START_DATE, end_dt |-> START_DATE,
     sub |-> << >>, scope |-> None, op |-> "init", out |-> << >>]

(***************************************************************************)
(* The schedule oracle on its own: is_ac_on applied to any minute of       *)
(* SchedDays days from START_DATE.                                         *)
(***************************************************************************)
SchedTimes == START_DATE..(START_DATE + SchedDays * MinutesPerDay - 1)

Oracle ==
    /\ sched.on = << >>
    /\ sched' = [sched EXCEPT !.on = <<is_ac_on(sched.ts)>>]
    /\ UNCHANGED <<cache, session_state, widgets, run, rng, hist, data, config>>

(***************************************************************************)
(* The data engine on its own: the dataset is generated from a seed, then  *)
(* filtered to a range, optionally narrowed to a floor or a room as the    *)
(* views do, and aggregated.                                               *)
(***************************************************************************)
\* Query bounds: every half step from one step before the horizon to one
\* step after it.
QueryTimes ==
    {START_DATE + k * (TIME_FREQ_MIN \div 2) : k \in (0 - 2)..(2 * NumSteps)}

FloorNames == {FLOORS[f].floor : f \in DOMAIN FLOORS}

RoomIds == {ROOMS[r].room_id : r \in DOMAIN ROOMS}

DataLoad ==
    /\ data.op = "init"
    /\ data' = [data EXCEPT !.df = build_dataset(data.seed, 0), !.op = "load_data"]
    /\ UNCHANGED <<cache, session_state, widgets, run, rng, hist, sched, config>>

DataFilter ==
    /\ data.op = "load_data"
    /\ \E start_dt \in QueryTimes, end_dt \in QueryTimes :
         data' = [data EXCEPT !.start_dt = start_dt,
                              !.end_dt = end_dt,
                              !.sub = filter_by_range(data.df, start_dt, end_dt),
                              !.scope = "range",
                              !.op = "filter_by_range"]
    /\ UNCHANGED <<cache, session_state, widgets, run, rng, hist, sched, config>>

DataSelectFloor ==
    /\ data.op = "filter_by_range"
    /\ \E floor \in FloorNames :
         data' = [data EXCEPT !.sub = select_floor(data.sub, floor),
                              !.scope = "floor",
                              !.op = "select"]
    /\ UNCHANGED <<cache, session_state, widgets, run, rng, hist, sched, config>>

DataSelectRoom ==
    /\ data.op = "filter_by_range"
    /\ \E room_id \in RoomIds :
         data' = [data EXCEPT !.sub = select_room(data.sub, room_id),
                              !.scope = "room",
                              !.op = "select"]
    /\ UNCHANGED <<cache, session_state, widgets, run, rng, hist, sched, config>>

DataReady == data.op \in {"filter_by_range", "select"}

DataAggregate ==
    /\ DataReady
    /\ data' = [data EXCEPT !.op = "aggregate_energy",
                            !.out = aggregate_energy(data.sub)]
    /\ UNCHANGED <<cache, session_state, widgets, run, rng, hist, sched, config>>

DataDaily ==
    /\ DataReady
    /\ data' = [data EXCEPT !.op = "daily_energy", !.out = daily_energy(data.sub)]
    /\ UNCHANGED <<cache, session_state, widgets, run, rng, hist, sched, config>>

DataRoomsAgg ==
    /\ DataReady
    /\ data.scope = "range"
    /\ data' = [data EXCEPT !.op = "rooms_agg", !.out = rooms_agg(data.sub)]
    /\ UNCHANGED <<cache, session_state, widgets, run, rng, hist, sched, config>>

DataEnergyByFloor ==
    /\ DataReady
    /\ data.scope = "range"
    /\ data' = [data EXCEPT !.op = "energy_by_floor",
                            !.out = energy_by_floor(data.sub)]
    /\ UNCHANGED <<cache, session_state, widgets, run, rng, hist, sched, config>>

DataEnergyByRoom ==
    /\ DataReady
    /\ data.scope = "floor"
    /\ data' = [data EXCEPT !.op = "energy_by_room",
                            !.out = energy_by_room(data.sub)]
    /\ UNCHANGED <<cache, session_state, widgets, run, rng, hist, sched, config>>

(***************************************************************************)
(* The per-room rollup of building_overview on its own: the filtered       *)
(* subset is handed over in another row order (reversed, or rotated by     *)
(* some rows) before rooms_agg sorts and groups it.                        *)
(***************************************************************************)
RowOrders == {[how |-> "reversed", shift |-> 0]}
                 \union {[how |-> "rotated", shift |-> k] : k \in 1..MaxShift}

\* The rows of df in the order o.
reorder(df, o) ==
    IF o.how = "reversed"
    THEN [i \in DOMAIN df |-> df[Len(df) + 1 - i]]
    ELSE [i \in DOMAIN df |-> df[((i - 1 + o.shift) % Len(df)) + 1]]

RollupReorder ==
    /\ data.op = "filter_by_range"
    /\ data.sub # << >>
    /\ \E o \in RowOrders :
         data' = [data EXCEPT !.sub = as_rows(reorder(data.sub, o)),
                              !.scope = o.how,
                              !.op = "reorder"]
    /\ UNCHANGED <<cache, session_state, widgets, run, rng, hist, sched, config>>

RollupRoomsAgg ==
    /\ data.op = "reorder"
    /\ data' = [data EXCEPT !.op = "rollup", !.out = rooms_agg(data.sub)]
    /\ UNCHANGED <<cache, session_state, widgets, run, rng, hist, sched, config>>

(***************************************************************************)
(* The synthesizer on its own under other values of the module constants:  *)
(* horizons that end before they start and steps that are zero or          *)
(* negative, next to well-formed ones.                                     *)
(***************************************************************************)
Configs ==
    [START_DATE : {START_DATE, START_DATE + TIME_FREQ_MIN},
     END_DATE : {START_DATE - TIME_FREQ_MIN, START_DATE,
                 START_DATE + 2 * TIME_FREQ_MIN, END_DATE},
     TIME_FREQ_MIN : {0 - TIME_FREQ_MIN, 0, TIME_FREQ_MIN}]

\* The body of load_data, reading the module constants from cfg: the frame,
\* the exception that ended it (None if it returned) and the raw values it
\* took from the generator.
build_dataset_for(cfg, seed, pos) ==
    IF date_range_raises(cfg.TIME_FREQ_MIN)
    THEN [raised |-> "ZeroDivisionError", df |-> << >>, draws |-> 0]
    ELSE [raised |-> None,
          df |-> concat_frames_for(cfg, 1, seed, pos),
          draws |-> Len(ROOMS) * DrawsPerRoom(
                        Len(date_range(cfg.START_DATE, cfg.END_DATE,
                                       cfg.TIME_FREQ_MIN)))]

ConfigLoad ==
    /\ data.op = "init"
    /\ \E b \in {build_dataset_for(config, data.seed, 0)} :
         data' = [data EXCEPT !.df = as_rows(b.df),
                              !.op = IF b.raised = None THEN "load_data" ELSE "raised",
                              !.out = [raised |-> b.raised, draws |-> b.draws]]
    /\ UNCHANGED <<cache, session_state, widgets, run, rng, hist, sched, config>>

(***************************************************************************)
(* The cached loader.                                                      *)
(***************************************************************************)
\* load_data without the cache: every call builds again.
load_data_uncached(c, g) ==
    LET df == build_dataset(g.seed, g.pos)
    IN  [df |-> df,
         cache |-> <<df>>,
         rng |-> [g EXCEPT !.pos = @ + Len(ROOMS) * DrawsPerRoom(GridLen)],
         built |-> TRUE]

\* @st.cache_data load_data(): c is the cache entry, g the generator.
load_data(c, g) ==
    IF c # << >>
    THEN [df |-> c[1], cache |-> c, rng |-> g, built |-> FALSE]
    ELSE LET df == build_dataset(g.seed, g.pos)
         IN  [df |-> df,
              cache |-> <<df>>,
              rng |-> [g EXCEPT !.pos = @ + Len(ROOMS) * DrawsPerRoom(GridLen)],
              built |-> TRUE]

(***************************************************************************)
(* UI sections.  Each returns the session state it leaves, how it ended    *)
(* ("ok", "rerun" for st.experimental_rerun, or the exception raised) and  *)
(* what it put on the page.                                                *)
(***************************************************************************)
VIEWS == <<"Building Overview", "Floor View", "Room View", "Manage Devices (demo)">>

NoPage == [view |-> None, message |-> None, totals |-> << >>,
           groups |-> << >>, by_floor |-> << >>, daily |-> << >>,
           latest |-> << >>]

\* sidebar_controls without "if auto_refresh: st.experimental_rerun()".
sidebar_controls_no_rerun(ss, w) ==
    LET ss1 == IF ss.view_mode = None
               THEN [ss EXCEPT !.view_mode = "Building Overview"]
               ELSE ss
    IN  IF Len(w.date_range) # 2
        THEN [session_state |-> ss1, status |-> "ValueError", view |-> ss1.view_mode,
              start_dt |-> None, end_dt |-> None, error |-> FALSE]
        ELSE [session_state |-> ss1,
              status |-> "ok",
              view |-> ss1.view_mode,
              start_dt |-> combine(w.date_range[1], w.start_time),
              end_dt |-> combine(w.date_range[2], w.end_time),
              error |-> (combine(w.date_range[2], w.end_time)
                             <= combine(w.date_range[1], w.start_time))]

sidebar_controls(ss, w) ==
    LET ss1 == IF ss.view_mode = None
               THEN [ss EXCEPT !.view_mode = "Building Overview"]
               ELSE ss
        view == ss1.view_mode
        date_range_sel == w.date_range
    IN  IF Len(date_range_sel) # 2
        THEN [session_state |-> ss1, status |-> "ValueError", view |-> view,
              start_dt |-> None, end_dt |-> None, error |-> FALSE]
        ELSE LET start_dt == combine(date_range_sel[1], w.start_time)
                 end_dt == combine(date_range_sel[2], w.end_time)
             IN  [session_state |-> ss1,
                  status |-> IF w.auto_refresh THEN "rerun" ELSE "ok",
                  view |-> view,
                  start_dt |-> start_dt,
                  end_dt |-> end_dt,
                  error |-> (end_dt <= start_dt)]

\* The tiles of building_overview and what follows them, given the totals
\* and the per-room rollup; click: the room_id of the tile pressed, or None.
building_overview_tiles(df_range, ss, click, totals, agg) ==
    IF \E i \in DOMAIN agg : agg[i].room_id = click
    THEN LET row == agg[CHOOSE i \in DOMAIN agg : agg[i].room_id = click]
         IN  [session_state |->
                  [ss EXCEPT !.floor_select = row.floor,
                             !.room_select_label = row.room_id,
                             !.view_mode = "Room View"],
              status |-> "rerun",
              page |-> [NoPage EXCEPT !.view = "Building Overview",
                                      !.totals = totals]]
    ELSE [session_state |-> ss,
          status |-> "ok",
          page |-> [NoPage EXCEPT
                      !.view = "Building Overview",
                      !.message = IF agg = << >>
                                  THEN "No rooms found in this range."
                                  ELSE None,
                      !.totals = totals,
                      !.groups = agg,
                      !.by_floor = energy_by_floor(df_range),
                      !.daily = daily_energy(df_range)]]

building_overview(df_range, ss, click) ==
    building_overview_tiles(df_range, ss, click,
                            aggregate_energy(df_range), rooms_agg(df_range))

\* floor_view once the floor is selected and its rows are taken
floor_view_body(ss1, df_floor) ==
    IF df_floor = << >>
    THEN [session_state |-> ss1,
          status |-> "ok",
          page |-> [NoPage EXCEPT
                      !.view = "Floor View",
                      !.message = "No data for this floor in the selected range."]]
    ELSE [session_state |-> ss1,
          status |-> "ok",
          page |-> [NoPage EXCEPT
                      !.view = "Floor View",
                      !.totals = aggregate_energy(df_floor),
                      !.groups = energy_by_room(df_floor),
                      !.daily = daily_energy(df_floor)]]

\* "if 'floor_select' not in st.session_state": the first floor
default_floor(ss) ==
    IF ss.floor_select = None
    THEN [ss EXCEPT !.floor_select = FLOORS[1].floor]
    ELSE ss

floor_view(df_range, ss) ==
    floor_view_body(default_floor(ss),
                    select_floor(df_range, default_floor(ss).floor_select))

\* The room ids selectable on a floor (a room's label stands for its id).
room_options(floor) ==
    LET f == CHOOSE i \in DOMAIN FLOORS : FLOORS[i].floor = floor
    IN  [r \in DOMAIN FLOORS[f].rooms |-> FLOORS[f].rooms[r][1]]

\* "if room_select_label not in room_label_map": the floor's first room
valid_room(ss1) ==
    IF \E i \in DOMAIN room_options(ss1.floor_select) :
          room_options(ss1.floor_select)[i] = ss1.room_select_label
    THEN ss1
    ELSE [ss1 EXCEPT !.room_select_label = room_options(ss1.floor_select)[1]]

\* room_view once the room is selected and its rows are taken
room_view_body(ss2, df_room, df_room_sorted) ==
    IF df_room = << >>
    THEN [session_state |-> ss2,
          status |-> "ok",
          page |-> [NoPage EXCEPT
                      !.view = "Room View",
                      !.message = "No data for this room in the selected range."]]
    ELSE [session_state |-> ss2,
          status |-> "ok",
          page |-> [NoPage EXCEPT
                      !.view = "Room View",
                      !.totals = aggregate_energy(df_room),
                      !.daily = daily_energy(df_room_sorted),
                      !.latest = <<df_room_sorted[Len(df_room_sorted)]>>]]

room_view_rows(ss2, df_room) ==
    room_view_body(ss2, df_room, sort_values(df_room, ts_key))

room_view_session(df_range, ss2) ==
    room_view_rows(ss2, select_room(df_range, ss2.room_select_label))

room_view(df_range, ss) == room_view_session(df_range, valid_room(default_floor(ss)))

\* The device registry editor is presentation only; its table is not modelled.
manage_devices_demo(ss) ==
    [session_state |-> ss,
     status |-> "ok",
     page |-> [NoPage EXCEPT !.view = "Manage Devices (demo)"]]

(***************************************************************************)
(* Main app: one run of the script.                                        *)
(***************************************************************************)
NoRun == [outcome |-> "none", df |-> << >>, sidebar_error |-> FALSE,
          message |-> None, start_dt |-> None, end_dt |-> None,
          df_range |-> << >>, page |-> NoPage]

range_check_skipped(start_dt, end_dt) == FALSE

\* main: "if end_dt <= start_dt: st.stop()"
range_rejected(start_dt, end_dt) == end_dt <= start_dt

empty_check_skipped(df_range) == FALSE

\* main: "if df_range.empty: st.warning(...); st.stop()"
range_has_no_data(df_range) == df_range = << >>

\* What a run leaves: cache, generator, session state and the run's record.
script_end(ld, ss1, r) ==
    [cache |-> ld.cache, rng |-> ld.rng, built |-> ld.built,
     df |-> ld.df, session_state |-> ss1, run |-> r]

\* The run's record when sidebar_controls has returned or raised.
script_start(ld, sc) ==
    [NoRun EXCEPT !.df = <<ld.df>>,
                  !.sidebar_error = sc.error,
                  !.start_dt = sc.start_dt,
                  !.end_dt = sc.end_dt]

\* main: the dispatch on the view
script_view(df_range, sc, click) ==
    IF sc.view = "Building Overview"
    THEN building_overview(df_range, sc.session_state, click)
    ELSE IF sc.view = "Floor View"
    THEN floor_view(df_range, sc.session_state)
    ELSE IF sc.view = "Room View"
    THEN room_view(df_range, sc.session_state)
    ELSE manage_devices_demo(sc.session_state)

script_viewed(ld, r1, v) ==
    script_end(ld, v.session_state,
               [r1 EXCEPT !.outcome = IF v.status = "rerun" THEN "rerun" ELSE "done",
                          !.page = v.page])

\* main from "df_range = filter_by_range(df, start_dt, end_dt)" on
script_filtered(ld, sc, click, r0, df_range) ==
    IF range_has_no_data(df_range)
    THEN script_end(ld, sc.session_state,
                    [r0 EXCEPT
                       !.df_range = <<df_range>>,
                       !.outcome = "stopped",
                       !.message =
                         "No data in the selected range. Try expanding the date/time."])
    ELSE script_viewed(ld, [r0 EXCEPT !.df_range = <<df_range>>],
                       script_view(df_range, sc, click))

\* main after "df = load_data()" and "sidebar_controls(df)"
script_body(ld, sc, click, r0) ==
    IF sc.status # "ok"
    THEN script_end(ld, sc.session_state, [r0 EXCEPT !.outcome = sc.status])
    ELSE IF range_rejected(sc.start_dt, sc.end_dt)
    THEN script_end(ld, sc.session_state, [r0 EXCEPT !.outcome = "stopped"])
    ELSE script_filtered(ld, sc, click, r0,
                         filter_by_range(ld.df, sc.start_dt, sc.end_dt))

script_loaded(ld, sc, click) == script_body(ld, sc, click, script_start(ld, sc))

\* c, g: cache entry and generator; ss, w: session state and widget values
\* at the start of the run; click: the tile pressed, or None.
main(c, g, ss, w, click) ==
    script_loaded(load_data(c, g), sidebar_controls(ss, w), click)

(***************************************************************************)
(* The session: every interaction with a widget sets its value and runs    *)
(* the script again.                                                       *)
(***************************************************************************)
FirstDate == date_of(START_DATE)

LastDate == date_of(END_DATE)

\* Values of the date range picker: a range within the horizon, or the
\* one-element tuple it holds while the end date is not picked yet.
DateInputs ==
    {<<FirstDate, LastDate>>, <<FirstDate, FirstDate>>, <<LastDate, LastDate>>,
     <<FirstDate>>}

StartTimes == {time(8, 0), time(13, 0), time(20, 0)}

EndTimes == {time(13, 0), time(20, 0)}

\* A new session: no key set, the widgets at their default values.
NoSession == [view_mode |-> None, floor_select |-> None, room_select_label |-> None]

DefaultWidgets ==
    [date_range |-> <<FirstDate, LastDate>>,
     start_time |-> time(8, 0),
     end_time |-> time(20, 0),
     auto_refresh |-> FALSE]

NoHist == [builds |-> 0, first |-> << >>]

Script(ss, w, click) ==
    \E m \in {main(cache, rng, ss, w, click)} :
        /\ cache' = m.cache
        /\ rng' = m.rng
        /\ session_state' = m.session_state
        /\ widgets' = w
        /\ run' = m.run
        /\ hist' = [hist EXCEPT
                      !.builds = @ + (IF m.built THEN 1 ELSE 0),
                      !.first = IF @ = << >> THEN <<m.df>> ELSE @]
        /\ UNCHANGED <<data, sched, config>>

SidebarShown == run.outcome # "none"

\* The widgets created after the date range was unpacked.
SidebarComplete == run.outcome \notin {"none", "ValueError"}

Open ==
    /\ run.outcome = "none"
    /\ Script(session_state, widgets, None)

Rerun ==
    /\ run.outcome = "rerun"
    /\ Script(session_state, widgets, None)

SelectView ==
    /\ SidebarShown
    /\ \E v \in {VIEWS[i] : i \in DOMAIN VIEWS} \ {session_state.view_mode} :
         Script([session_state EXCEPT !.view_mode = v], widgets, None)

PickDates ==
    /\ SidebarShown
    /\ \E d \in DateInputs \ {widgets.date_range} :
         Script(session_state, [widgets EXCEPT !.date_range = d], None)

SetStartTime ==
    /\ SidebarComplete
    /\ \E t \in StartTimes \ {widgets.start_time} :
         Script(session_state, [widgets EXCEPT !.start_time = t], None)

SetEndTime ==
    /\ SidebarComplete
    /\ \E t \in EndTimes \ {widgets.end_time} :
         Script(session_state, [widgets EXCEPT !.end_time = t], None)

ToggleAutoRefresh ==
    /\ SidebarComplete
    /\ Script(session_state, [widgets EXCEPT !.auto_refresh = ~@], None)

SelectFloor ==
    /\ run.page.view \in {"Floor View", "Room View"}
    /\ \E f \in FloorNames \ {session_state.floor_select} :
         Script([session_state EXCEPT !.floor_select = f], widgets, None)

SelectRoom ==
    /\ run.page.view = "Room View"
    /\ LET options == room_options(session_state.floor_select)
       IN  \E i \in DOMAIN options :
             /\ options[i] # session_state.room_select_label
             /\ Script([session_state EXCEPT !.room_select_label = options[i]],
                       widgets, None)

ClickTile ==
    /\ run.page.view = "Building Overview"
    /\ \E i \in DOMAIN run.page.groups :
         Script(session_state, widgets, run.page.groups[i].room_id)

\* The process is restarted: a new cache epoch, a new session, a new seed.
Restart ==
    /\ run.outcome # "none"
    /\ cache' = << >>
    /\ session_state' = NoSession
    /\ widgets' = DefaultWidgets
    /\ run' = NoRun
    /\ hist' = NoHist
    /\ rng' \in [seed : 0..(AppSeeds - 1), pos : {0}]
    /\ UNCHANGED <<data, sched, config>>

(***************************************************************************)
(* Specifications.                                                         *)
(***************************************************************************)
AppIdle ==
    /\ cache = << >>
    /\ session_state = NoSession
    /\ widgets = DefaultWidgets
    /\ run = NoRun
    /\ hist = NoHist

Init ==
    /\ AppIdle
    /\ config = CONFIG
    /\ rng \in [seed : 0..(AppSeeds - 1), pos : {0}]
    /\ data = DataIdle
    /\ sched = SchedIdle

Next ==
    \/ Open
    \/ Rerun
    \/ SelectView
    \/ PickDates
    \/ SetStartTime
    \/ SetEndTime
    \/ ToggleAutoRefresh
    \/ SelectFloor
    \/ SelectRoom
    \/ ClickTile
    \/ Restart

Spec == Init /\ [][Next]_vars

InitData ==
    /\ AppIdle
    /\ config = CONFIG
    /\ rng = [seed |-> 0, pos |-> 0]
    /\ data \in {[DataIdle EXCEPT !.seed = sd] : sd \in Seeds}
    /\ sched = SchedIdle

NextData ==
    \/ DataLoad
    \/ DataFilter
    \/ DataSelectFloor
    \/ DataSelectRoom
    \/ DataAggregate
    \/ DataDaily
    \/ DataRoomsAgg
    \/ DataEnergyByFloor
    \/ DataEnergyByRoom

SpecData == InitData /\ [][NextData]_vars

InitSchedule ==
    /\ AppIdle
    /\ config = CONFIG
    /\ rng = [seed |-> 0, pos |-> 0]
    /\ data = DataIdle
    /\ sched \in {[SchedIdle EXCEPT !.ts = t] : t \in SchedTimes}

NextSchedule == Oracle

SpecSchedule == InitSchedule /\ [][NextSchedule]_vars

NextRollup ==
    \/ DataLoad
    \/ DataFilter
    \/ RollupReorder
    \/ RollupRoomsAgg

SpecRollup == InitData /\ [][NextRollup]_vars

InitConfig ==
    /\ AppIdle
    /\ config \in Configs
    /\ rng = [seed |-> 0, pos |-> 0]
    /\ data \in {[DataIdle EXCEPT !.seed = sd] : sd \in Seeds}
    /\ sched = SchedIdle

NextConfig == ConfigLoad

SpecConfig == InitConfig /\ [][NextConfig]_vars

(***************************************************************************)
(* Properties.                                                             *)
(***************************************************************************)
\* Sum of energy_kwh_step over the rows lo..hi of df whose row number is in I.
RECURSIVE EnergyIn(_, _, _, _)
EnergyIn(df, I, lo, hi) ==
    IF lo > hi
    THEN 0
    ELSE IF lo = hi
    THEN IF lo \in I THEN df[lo].energy_kwh_step ELSE 0
    ELSE EnergyIn(df, I, lo, (lo + hi) \div 2)
         + EnergyIn(df, I, (lo + hi) \div 2 + 1, hi)

\* Sum of energy_kwh_step over the rows of df whose row number is in I.
EnergyOfRows(df, I) == EnergyIn(df, I, 1, Len(df))

\* Sum of the field col over the rows of a rollup.
RECURSIVE RowsTotal(_, _, _)
RowsTotal(rows, col, k) ==
    IF k = 0 THEN 0 ELSE rows[k][col] + RowsTotal(rows, col, k - 1)

\* C2: in the dataset built by load_data every configured unit has exactly
\* the grid START_DATE, START_DATE + step, ..., END_DATE as its timestamps:
\* (END_DATE - START_DATE) / step + 1 samples, each (unit, grid point) pair
\* exactly once, nothing off the grid.
C2_RegularGrid ==
    data.op # "init" =>
        LET df == data.df
            n == (END_DATE - START_DATE) \div TIME_FREQ_MIN + 1
            grid == {START_DATE + k * TIME_FREQ_MIN : k \in 0..(n - 1)}
        IN  /\ START_DATE + (n - 1) * TIME_FREQ_MIN = END_DATE
            /\ \A u \in RoomIds :
                 /\ Cardinality({i \in DOMAIN df : df[i].room_id = u}) = n
                 /\ \A t \in grid :
                      Cardinality({i \in DOMAIN df :
                                     df[i].room_id = u /\ df[i].timestamp = t}) = 1
            /\ \A i \in DOMAIN df :
                 df[i].timestamp \in grid /\ df[i].room_id \in RoomIds

C2_Witness ==
    /\ data.op = "load_data"
    /\ Len(data.df) = Len(ROOMS) * NumSteps
    /\ \E i \in DOMAIN data.df : data.df[i].timestamp = END_DATE
    /\ \E i \in DOMAIN data.df : data.df[i].timestamp = START_DATE

\* C3: every generated sample has power >= 0 and energy_delta >= 0, also
\* when the drawn voltage * current is negative.
C3_PowerNonNegative ==
    data.op # "init" =>
        \A i \in DOMAIN data.df :
            data.df[i].power_kw >= 0 /\ data.df[i].energy_kwh_step >= 0

C3_Witness ==
    /\ data.op = "load_data"
    /\ \E i \in DOMAIN data.df :
         /\ data.df[i].voltage * data.df[i].current < 0
         /\ data.df[i].power_kw = 0
    /\ \E i \in DOMAIN data.df : data.df[i].power_kw > 0

\* C4: filter_by_range(ds, start, end) is exactly the samples of ds with
\* start <= timestamp <= end, each once and unaltered.
C4_FilterInclusive ==
    data.op = "filter_by_range" =>
        LET df == data.df
            sub == data.sub
            wanted == {i \in DOMAIN df : /\ data.start_dt <= df[i].timestamp
                                         /\ df[i].timestamp <= data.end_dt}
        IN  /\ \A i \in wanted : \E j \in DOMAIN sub : sub[j] = df[i]
            /\ \A j \in DOMAIN sub : \E i \in wanted : df[i] = sub[j]
            /\ \A j, k \in DOMAIN sub : sub[j] = sub[k] => j = k
            /\ Len(sub) = Cardinality(wanted)

\* The boundary cases: samples at start and at end are in the result, the
\* samples one step before start and one step after end are in ds but not in it.
C4_Witness ==
    /\ data.op = "filter_by_range"
    /\ data.start_dt < data.end_dt
    /\ \E j \in DOMAIN data.sub : data.sub[j].timestamp = data.start_dt
    /\ \E j \in DOMAIN data.sub : data.sub[j].timestamp = data.end_dt
    /\ \E i \in DOMAIN data.df :
         /\ data.df[i].timestamp = data.end_dt + TIME_FREQ_MIN
         /\ \A j \in DOMAIN data.sub : data.sub[j] # data.df[i]
    /\ \E i \in DOMAIN data.df :
         /\ data.df[i].timestamp = data.start_dt - TIME_FREQ_MIN
         /\ \A j \in DOMAIN data.sub : data.sub[j] # data.df[i]

\* C5: the per-group energy sums of a rollup (per room and per floor in
\* building_overview, per room of a floor in floor_view) add up to the total
\* aggregate_energy returns for the same subset.
C5_GroupsSumToTotal ==
    /\ data.op = "rooms_agg" =>
         RowsTotal(data.out, "energy_kwh", Len(data.out))
             = aggregate_energy(data.sub).total_energy
    /\ data.op \in {"energy_by_floor", "energy_by_room"} =>
         RowsTotal(data.out, "energy_kwh_step", Len(data.out))
             = aggregate_energy(data.sub).total_energy

C5_Witness ==
    /\ data.op = "rooms_agg"
    /\ Len(data.out) = Len(ROOMS)
    /\ Len(data.sub) >= 2 * Len(ROOMS)
    /\ \A k \in DOMAIN data.out : data.out[k].energy_kwh > 0

\* C7: aggregate_energy returns the sum of energy_delta over the subset, that
\* sum times the tariff 8.0 as cost and times the factor 0.6 as co2 (kept here
\* in tenths: 6); all three are zero on the empty subset.
C7_AggregateTotals ==
    data.op = "aggregate_energy" =>
        /\ data.out.total_energy = EnergyOfRows(data.sub, DOMAIN data.sub)
        /\ data.out.total_cost = 8 * data.out.total_energy
        /\ data.out.total_co2_kg = 6 * data.out.total_energy
        /\ data.sub = << >> =>
             /\ data.out.total_energy = 0
             /\ data.out.total_cost = 0
             /\ data.out.total_co2_kg = 0

C7_Witness ==
    /\ data.op = "aggregate_energy"
    /\ Len(data.sub) >= 2
    /\ data.out.total_energy > 0
    /\ data.out.total_cost > data.out.total_co2_kg

\* C10: daily_energy returns one row per calendar date present in the subset,
\* in ascending date order, each with the energy of the samples of that date
\* (midnight to midnight); the rows add up to the subset's total energy.
C10_DailyEnergy ==
    data.op = "daily_energy" =>
        LET sub == data.sub
            rows == data.out
            on_date(d) == {i \in DOMAIN sub :
                              /\ d * 24 * 60 <= sub[i].timestamp
                              /\ sub[i].timestamp < (d + 1) * 24 * 60}
        IN  /\ \A i \in DOMAIN sub :
                 \E k \in DOMAIN rows : i \in on_date(rows[k].timestamp)
            /\ \A k \in DOMAIN rows :
                 /\ on_date(rows[k].timestamp) # {}
                 /\ rows[k].energy_kwh = EnergyOfRows(sub, on_date(rows[k].timestamp))
            /\ \A k \in 1..(Len(rows) - 1) : rows[k].timestamp < rows[k + 1].timestamp
            /\ RowsTotal(rows, "energy_kwh", Len(rows))
                   = EnergyOfRows(sub, DOMAIN sub)

\* A subset that starts in the middle of a day and spans several dates.
C10_Witness ==
    /\ data.op = "daily_energy"
    /\ Len(data.out) >= 2
    /\ data.sub[1].timestamp % (24 * 60) # 0
    /\ data.out[1].energy_kwh > 0
    /\ \E i, j \in DOMAIN data.sub :
         /\ i # j
         /\ data.sub[i].timestamp - data.sub[j].timestamp \in 1..(24 * 60 - 1)
         /\ data.sub[i].timestamp \div (24 * 60) # data.sub[j].timestamp \div (24 * 60)

\* C6: is_ac_on(ts) is true exactly on Monday to Friday from 09:00 to 12:00
\* and from 13:00 to 17:00, bounds included: false on Saturday and Sunday,
\* true at 09:00, 12:00, 13:00 and 17:00, false at 08:45, 12:15, 12:45, 17:15.
C6_ScheduleInclusive ==
    sched.on # << >> =>
        LET day == (sched.ts \div (24 * 60)) % 7      \* 0 = Monday
            hour == (sched.ts % (24 * 60)) \div 60
            minute == sched.ts % 60
            hm == <<hour, minute>>
            in_window == \/ hour \in 9..11
                         \/ hm = <<12, 0>>
                         \/ hour \in 13..16
                         \/ hm = <<17, 0>>
        IN  /\ sched.on[1] = (day \in 0..4 /\ in_window)
            /\ day \in {5, 6} => sched.on[1] = FALSE
            /\ day \in 0..4 /\ hm \in {<<9, 0>>, <<12, 0>>, <<13, 0>>, <<17, 0>>}
                 => sched.on[1] = TRUE
            /\ hm \in {<<8, 45>>, <<12, 15>>, <<12, 45>>, <<17, 15>>}
                 => sched.on[1] = FALSE

\* A weekday at exactly 17:00:00.
C6_Witness ==
    /\ sched.on = <<TRUE>>
    /\ (sched.ts \div (24 * 60)) % 7 = 2
    /\ sched.ts % (24 * 60) = 17 * 60

\* C1: within one cache epoch (the life of the process) every load_data call
\* returns the samples the first call returned, whatever runs and queries
\* came in between: the dataset is built at most once and the cache entry
\* never changes.
C1_LoadDataIdempotent ==
    /\ hist.builds <= 1
    /\ run.df # << >> => run.df = hist.first
    /\ cache # << >> => cache = hist.first

\* A later run of the epoch, after queries, with the data of the first run.
C1_Witness ==
    /\ run.outcome = "done"
    /\ run.page.view = "Room View"
    /\ run.page.totals # << >>
    /\ hist.builds = 1
    /\ run.df = hist.first

\* The run got its range back from sidebar_controls (or the rerun it asked for).
RangeChosen == run.outcome \notin {"none", "ValueError"}

\* C8: a query given end < start fails with the range error and computes
\* nothing: no filtering, no aggregation, no view.
C8_InvalidRangeFailsFast ==
    (RangeChosen /\ run.end_dt < run.start_dt) =>
        /\ run.sidebar_error
        /\ run.outcome \in {"stopped", "rerun"}
        /\ run.df_range = << >>
        /\ run.page = NoPage
        /\ run.message = None

C8_Witness ==
    /\ RangeChosen
    /\ run.end_dt < run.start_dt
    /\ run.outcome = "stopped"
    /\ run.sidebar_error

\* The run went on from sidebar_controls to the range check of main.
QueryMade == RangeChosen /\ ~widgets.auto_refresh

NoSampleInRange ==
    \A i \in DOMAIN run.df[1] :
        ~(run.start_dt <= run.df[1][i].timestamp /\ run.df[1][i].timestamp <= run.end_dt)

\* The explicit "no data" outcome: the filter ran and returned the empty
\* subset, the warning is shown, no error is, and no view is rendered.
NoDataOutcome ==
    /\ run.df_range = << << >> >>
    /\ run.message = "No data in the selected range. Try expanding the date/time."
    /\ ~run.sidebar_error
    /\ run.outcome = "stopped"
    /\ run.page = NoPage

RowsOfRoom(rid) == {i \in DOMAIN data.sub : data.sub[i].room_id = rid}

\* The row of room rid with the greatest timestamp.
LatestRowOf(rid) ==
    CHOOSE i \in RowsOfRoom(rid) :
        \A j \in RowsOfRoom(rid) : data.sub[j].timestamp <= data.sub[i].timestamp

\* The row of room rid that comes last in the order the subset was given in.
LastGivenRowOf(rid) ==
    CHOOSE i \in RowsOfRoom(rid) : \A j \in RowsOfRoom(rid) : j <= i

\* C11: in the per-room rollup of building_overview every room with samples
\* in the filtered subset has one group, and the group's last_power_kw is the
\* power of the room's sample with the greatest timestamp in the subset,
\* whatever order the subset's rows were in before the rollup sorted them.
C11_LastPowerIsLatest ==
    data.op = "rollup" =>
        /\ {data.out[k].room_id : k \in DOMAIN data.out}
               = {data.sub[i].room_id : i \in DOMAIN data.sub}
        /\ \A k \in DOMAIN data.out :
               data.out[k].last_power_kw
                   = data.sub[LatestRowOf(data.out[k].room_id)].power_kw

\* A rollup of a subset given out of time order: for some room the row given
\* last is not its latest sample and has another power than the latest.
C11_Witness ==
    /\ data.op = "rollup"
    /\ \E k \in DOMAIN data.out :
           LET rid == data.out[k].room_id
           IN  /\ LastGivenRowOf(rid) # LatestRowOf(rid)
               /\ data.sub[LastGivenRowOf(rid)].power_kw
                      # data.sub[LatestRowOf(rid)].power_kw
               /\ data.out[k].last_power_kw = data.sub[LatestRowOf(rid)].power_kw

\* The module constants are malformed: a step that is not positive or a
\* horizon that ends before it starts.
MalformedConfig ==
    config.TIME_FREQ_MIN <= 0 \/ config.END_DATE < config.START_DATE

AutoRefreshChecked == widgets.auto_refresh /\ run.outcome # "none"

====
